---- MODULE Spec2Model ----
(***************************************************************************)
(* A model of the datatidy core: the dependency resolver                   *)
(* (transformation/dependency_resolver.py), the transformation engine      *)
(* (transformation/engine.py), the fallback processor                      *)
(* (fallback/processor.py), the safe expression parser                     *)
(* (transformation/expressions.py) and the column operation chain          *)
(* (transformation/column_operations.py).                                  *)
(*                                                                         *)
(* An expression of a column configuration is represented by the set of    *)
(* identifiers (ast.Name nodes) that occur in it; a table (DataFrame) is a *)
(* function from the names of its columns to a token describing where the  *)
(* column's content came from.                                             *)
(***************************************************************************)
EXTENDS Integers, Sequences, FiniteSets, TLC

VARIABLES
    columns,          \* config["output"]["columns"], in declaration order
    input_columns,    \* set(df.columns)
    dependency_graph, \* DependencyResolver.dependency_graph
    reverse_graph,    \* DependencyResolver.reverse_graph
    in_degree,        \* local in_degree of resolve_execution_order
    queue,            \* local deque of resolve_execution_order
    execution_order,  \* local execution_order of resolve_execution_order
    remaining,        \* the set named by the "Circular dependency" error
    rpc,              \* position in / outcome of the resolver
    settings,         \* config["global_settings"] and the filters/sort keys
    pc,               \* position of the run of process_with_fallback
    run_order,        \* execution_order of the column loop of the run
    idx,              \* position of the column loop in run_order
    result_df,        \* the table the run is building
    successful_columns, \* FallbackProcessor.successful_columns
    failed_columns,   \* FallbackProcessor.failed_columns
    skipped_columns,  \* FallbackProcessor.skipped_columns
    error_log,        \* EnhancedLogger.error_log
    errors,           \* len(TransformationEngine.errors)
    attempts,         \* the columns handed to _process_column, in order
    raised,           \* the columns whose _process_column raised, in order
    fallback_applied, \* the columns for which _apply_column_fallback returned True
    post_calls,       \* the collaborators (_apply_filters, _apply_sorting) invoked
    result,           \* the ProcessingResult returned by process_with_fallback
    fallback_query_func, \* how the supplier given to the call behaves
    escalation_checks, \* evaluations of the escalation condition in the call
    calls,            \* the calls of process_with_fallback begun so far
    stats_id,         \* identity of the lists bound by the last reset_stats
    log_mark,         \* len(EnhancedLogger.error_log) when the call began
    returned,         \* the ProcessingResults of the earlier calls
    outcomes,         \* what the data made of each attempted column, in order
    occurred,         \* the errors that occurred in the call, in order
    expression,       \* the expression given to SafeExpressionParser.parse
    context,          \* the context given to SafeExpressionParser.parse
    epc,              \* position in / outcome of parse
    vpos,             \* position of _validate_ast in ast.walk(tree)
    evaluated,        \* the nodes _eval_node was entered for, in order
    called,           \* the functions called by _eval_node, in order
    cause,            \* the exception that parse wrapped into its ValueError
    series,           \* the series given to apply_operations
    operations,       \* the operation configurations given to apply_operations
    cpc,              \* position in / outcome of apply_operations
    stage,            \* position of the loop of apply_operations
    result_series,    \* local result of apply_operations
    stage_outputs,    \* the series returned by operation.apply, per stage
    threads,          \* the calls of process_with_fallback running at once
    df,               \* the DataFrame given to evaluate_vectorized
    vector_pc,        \* position in / outcome of evaluate_vectorized
    vector_result     \* the series evaluate_vectorized returns

resolverVars == <<dependency_graph, reverse_graph, in_degree, queue,
                  execution_order, remaining, rpc>>
configVars == <<columns, input_columns, settings>>
runVars == <<pc, run_order, idx, result_df, successful_columns, failed_columns,
             skipped_columns, error_log, errors, attempts, raised,
             fallback_applied, post_calls, result, fallback_query_func,
             escalation_checks, calls, stats_id, log_mark, returned,
             outcomes, occurred>>
callVars == <<fallback_query_func, escalation_checks, calls, stats_id, log_mark,
              returned>>
exprVars == <<expression, context, epc, vpos, evaluated, called, cause>>
chainVars == <<series, operations, cpc, stage, result_series, stage_outputs>>
threadVars == <<threads>>
vectorVars == <<df, vector_pc, vector_result>>
vars == <<configVars, resolverVars, runVars, exprVars, chainVars, threadVars,
          vectorVars>>

----------------------------------------------------------------------------
(* Bounds of the model *)

\* largest number of output columns of a configuration given to the resolver
MaxCols == 3
\* largest number of output columns of a configuration that is run
MaxRunCols == 4

----------------------------------------------------------------------------
(* Generic helpers *)

Range(s) == {s[i] : i \in DOMAIN s}

\* all enumerations, without repetition, of the finite set S
Perms(S) == {s \in [1..Cardinality(S) -> S] :
                \A i, j \in 1..Cardinality(S) : i # j => s[i] # s[j]}

\* position of x in the sequence s (0 when absent)
Pos(s, x) == IF \E i \in DOMAIN s : s[i] = x
             THEN CHOOSE i \in DOMAIN s : s[i] = x /\ \A j \in 1..(i-1) : s[j] # x
             ELSE 0

----------------------------------------------------------------------------
(* Configurations *)

\* names that output columns are declared under, in declaration order
OutputNames == <<"A", "B", "C", "D", "E", "F">>
\* the columns of the input table
InputColumns == {"a", "B"}

\* column_configs.keys(), as a list and as a set
KeyList(cols) == [i \in DOMAIN cols |-> cols[i].name]
Keys(cols) == {cols[i].name : i \in DOMAIN cols}
ConfigOf(cols, name) == cols[CHOOSE i \in DOMAIN cols : cols[i].name = name]

\* names excluded by analyze_expression
BuiltinNames == {"str", "int", "float", "bool", "len", "abs", "max", "min",
                 "round", "sum", "any", "all", "np", "pd", "re"}

\* a column that only maps a source column
SourceColumn(name, source) ==
    [name |-> name, source |-> source,
     has_transformation |-> FALSE, transformation |-> {}, interim |-> FALSE,
     validation |-> FALSE]

\* a column computed by a transformation expression that reads ids
ExprColumn(name, ids) ==
    [name |-> name, source |-> name,
     has_transformation |-> TRUE, transformation |-> ids, interim |-> FALSE,
     validation |-> FALSE]

\* the same column with validation rules
Validated(config) == [config EXCEPT !.validation = TRUE]

\* the same column marked interim: true
Interim(config) == [config EXCEPT !.interim = TRUE]

\* the names of the first n declared output columns
Names(n) == {OutputNames[i] : i \in 1..n}

\* the column specifications the resolver is exercised with: a plain mapping
\* of a source (the own name, the input column a or an output column), and a
\* transformation "p op q" over input or output columns (p and q may be the
\* same column, and may be the column itself)
ResolverColumnSpecs(name, names) ==
    {SourceColumn(name, s) : s \in names \cup {"a"}}
    \cup {ExprColumn(name, {p, q}) : p \in names \cup {"a"}, q \in names \cup {"a"}}

\* shape[i] is the specification declared for the i-th column, written for
\* a column named "A"; Declare gives it the name of its position
Declare(shape) ==
    [i \in DOMAIN shape |->
        [shape[i] EXCEPT !.name = OutputNames[i],
                         !.source = IF shape[i].has_transformation
                                    THEN OutputNames[i] ELSE shape[i].source]]

\* defaults of the global settings
DefaultFailureThreshold == 50   \* failure_threshold 0.5, as a percentage
DefaultMaxErrors == 100

\* the fallback transformations a column is configured with
FallbackKinds ==
    {[type |-> "default_value", value |-> "X", source |-> "", operation |-> ""],
     [type |-> "copy_column", value |-> "", source |-> "a", operation |-> ""],
     [type |-> "copy_column", value |-> "", source |-> "missing", operation |-> ""],
     [type |-> "basic_calculation", value |-> "", source |-> "a", operation |-> "mean"]}

\* fallback_transformations.get(column_name) of a column without an entry
NoFallback == [type |-> "none", value |-> "", source |-> "", operation |-> ""]

\* global_settings without any key: the defaults of FallbackProcessor.__init__
\* and TransformationEngine.__init__ (processing_mode "strict")
DefaultSettings ==
    [processing_mode |-> "strict",
     failure_threshold |-> DefaultFailureThreshold,
     enable_fallback |-> TRUE,
     fallback_transformations |-> [c \in {} |-> NoFallback],
     ignore_errors |-> FALSE,
     max_errors |-> DefaultMaxErrors,
     has_filters |-> FALSE,
     has_sort |-> FALSE]

\* the ProcessingResult before the run has returned
NoResult ==
    [success |-> FALSE, data |-> <<>>, successful_columns |-> <<>>,
     failed_columns |-> <<>>, skipped_columns |-> <<>>, error_log |-> <<>>,
     fallback_used |-> FALSE]

----------------------------------------------------------------------------
(* DependencyAnalyzer *)

analyze_expression(ids, available_columns) ==
    {name \in ids : name \in available_columns /\ name \notin BuiltinNames}

----------------------------------------------------------------------------
(* DependencyResolver *)

\* the dependencies build_dependency_graph computes for one column
ColumnDependencies(config, cols, inputs) ==
    LET all_columns == inputs \cup Keys(cols)
        source_deps == IF config.source # config.name /\ config.source \in all_columns
                       THEN {config.source} ELSE {}
        transformation_deps == IF config.has_transformation
                               THEN analyze_expression(config.transformation, all_columns)
                               ELSE {}
    IN {dep \in source_deps \cup transformation_deps :
           dep # config.name /\ (dep \in inputs \/ dep \in Keys(cols))}

build_dependency_graph(cols, inputs) ==
    [name \in Keys(cols) |-> ColumnDependencies(ConfigOf(cols, name), cols, inputs)]

\* reverse_graph is a defaultdict: a name without dependents maps to set()
build_reverse_graph(cols, inputs) ==
    LET g == build_dependency_graph(cols, inputs)
    IN [dep \in inputs \cup Keys(cols) |-> {name \in Keys(cols) : dep \in g[name]}]

InDegree_countsInputs(graph, cols, inputs) ==
    [col \in DOMAIN graph |-> Cardinality({dep \in graph[col] : dep \in inputs})]

\* in_degree counts only dependencies on other output columns
InDegree(graph, cols, inputs) ==
    [col \in DOMAIN graph |-> Cardinality({dep \in graph[col] : dep \in Keys(cols)})]

\* deque([col for col, degree in in_degree.items() if degree == 0]): a dict
\* keeps insertion order, which is the declaration order
InitialQueue(cols, deg) ==
    SelectSeq(KeyList(cols), LAMBDA col : deg[col] = 0)

\* the body of "for dependent in self.reverse_graph[current]" run over the
\* dependents in the order seq; st = [deg, q]
RECURSIVE ReleaseDependents(_, _, _)
ReleaseDependents(seq, cols, st) ==
    IF seq = <<>> THEN st
    ELSE LET dependent == Head(seq)
             st1 == IF dependent \in Keys(cols)
                    THEN LET d == st.deg[dependent] - 1
                         IN [deg |-> [st.deg EXCEPT ![dependent] = d],
                             q |-> IF d = 0 THEN Append(st.q, dependent) ELSE st.q]
                    ELSE st
         IN ReleaseDependents(Tail(seq), cols, st1)

Remaining_placed(cols, order) == Range(order)

\* remaining = set(column_configs.keys()) - set(execution_order)
Remaining(cols, order) == Keys(cols) \ Range(order)

\* resolve_execution_order up to the start of the while loop
StartResolve ==
    /\ dependency_graph' = build_dependency_graph(columns, input_columns)
    /\ reverse_graph' = build_reverse_graph(columns, input_columns)
    /\ in_degree' = InDegree(dependency_graph', columns, input_columns)
    /\ queue' = InitialQueue(columns, in_degree')
    /\ execution_order' = <<>>
    /\ rpc' = "kahn"
    /\ UNCHANGED remaining

\* a direct call of resolve_execution_order
ResolveBegin ==
    /\ rpc = "idle"
    /\ pc = "none"
    /\ StartResolve
    /\ UNCHANGED <<configVars, threadVars, vectorVars, exprVars, chainVars, runVars>>

\* one iteration of the while loop; a Python set of strings is iterated in
\* hash order, which any enumeration of the set can be
KahnStep ==
    /\ rpc = "kahn"
    /\ queue # <<>>
    /\ LET current == Head(queue)
       IN \E seq \in Perms(reverse_graph[current]) :
             LET st == ReleaseDependents(seq, columns,
                                         [deg |-> in_degree, q |-> Tail(queue)])
             IN /\ execution_order' = Append(execution_order, current)
                /\ in_degree' = st.deg
                /\ queue' = st.q
    /\ UNCHANGED <<dependency_graph, reverse_graph, remaining, rpc,
                   configVars, threadVars, vectorVars, exprVars, chainVars,
                   runVars>>

\* the check for circular dependencies and the return
KahnFinish ==
    /\ rpc = "kahn"
    /\ queue = <<>>
    /\ IF Len(execution_order) # Len(columns)
       THEN /\ remaining' = Remaining(columns, execution_order)
            /\ rpc' = "cycle_error"
       ELSE /\ remaining' = remaining
            /\ rpc' = "resolved"
    /\ UNCHANGED <<dependency_graph, reverse_graph, in_degree, queue,
                   execution_order, configVars, threadVars, vectorVars, exprVars, chainVars, runVars>>

----------------------------------------------------------------------------
(* The resolver on its own *)

\* DependencyResolver.__init__
ResolverIdle ==
    /\ dependency_graph = <<>>
    /\ reverse_graph = <<>>
    /\ in_degree = <<>>
    /\ queue = <<>>
    /\ execution_order = <<>>
    /\ remaining = {}
    /\ rpc = "idle"

\* FallbackProcessor.__init__, EnhancedLogger.__init__ and
\* TransformationEngine.__init__; at position p
RunIdle(p) ==
    /\ pc = p
    /\ run_order = <<>>
    /\ idx = 0
    /\ result_df = <<>>
    /\ successful_columns = <<>>
    /\ failed_columns = <<>>
    /\ skipped_columns = <<>>
    /\ error_log = <<>>
    /\ errors = 0
    /\ attempts = <<>>
    /\ raised = <<>>
    /\ fallback_applied = {}
    /\ post_calls = <<>>
    /\ result = NoResult
    /\ fallback_query_func = "none"
    /\ escalation_checks = 0
    /\ calls = 0
    /\ stats_id = 0
    /\ log_mark = 0
    /\ returned = <<>>
    /\ outcomes = <<>>
    /\ occurred = <<>>

\* no expression has been given to a SafeExpressionParser
NoExpression == [text |-> "", syntax_ok |-> FALSE, nodes |-> <<>>]

ExprIdle(p) ==
    /\ epc = p
    /\ vpos = 0
    /\ evaluated = <<>>
    /\ called = <<>>
    /\ cause = "none"

\* no series has been given to an AdvancedColumnTransformer
ChainIdle(p) ==
    /\ cpc = p
    /\ stage = 0
    /\ result_series = <<>>
    /\ stage_outputs = <<>>

\* evaluate_vectorized has not been called
VectorIdle ==
    /\ df = <<>>
    /\ vector_pc = "none"
    /\ vector_result = <<>>

\* nothing but the resolver / the processor is in use
OthersIdle ==
    /\ expression = NoExpression
    /\ context = <<>>
    /\ ExprIdle("none")
    /\ series = <<>>
    /\ operations = <<>>
    /\ ChainIdle("none")
    /\ threads = <<>>
    /\ VectorIdle

ResolverInit ==
    /\ \E n \in 1..MaxCols :
          \E shape \in [1..n -> ResolverColumnSpecs("A", Names(n))] :
             columns = Declare(shape)
    /\ input_columns = InputColumns
    /\ settings = DefaultSettings
    /\ ResolverIdle
    /\ RunIdle("none")
    /\ OthersIdle

ResolverNext == ResolveBegin \/ KahnStep \/ KahnFinish

SpecResolver == ResolverInit /\ [][ResolverNext]_vars

----------------------------------------------------------------------------
(* Tables *)

\* the input DataFrame
InputTable(inputs) == [c \in inputs |-> [origin |-> "input", of |-> c]]

SetColumn_newTable(t, c, v) == [x \in {c} |-> v]

\* df[c] = v
SetColumn(t, c, v) == [x \in DOMAIN t \cup {c} |-> IF x = c THEN v ELSE t[x]]

\* df[keep]
Restrict(t, keep) == [x \in DOMAIN t \cap keep |-> t[x]]

\* the series _process_column returns for a column
Computed(name) == [origin |-> "computed", of |-> name]

----------------------------------------------------------------------------
(* ColumnExecutionEngine.plan_execution *)

\* the columns validate_dependencies reports: a source that is neither the
\* column itself nor an input or output column (the dependencies that
\* analyze_expression returns are always in all_columns)
validate_dependencies(cols, inputs) ==
    {cols[i].name : i \in {j \in DOMAIN cols :
        cols[j].source # cols[j].name /\ cols[j].source \notin inputs \cup Keys(cols)}}

\* plan_execution up to the start of the while loop of the resolver
StartPlan ==
    IF validate_dependencies(columns, input_columns) # {}
    THEN /\ rpc' = "reference_error"
         /\ UNCHANGED <<dependency_graph, reverse_graph, in_degree, queue,
                        execution_order, remaining>>
    ELSE StartResolve

PlanReturned == rpc \in {"resolved", "cycle_error", "reference_error"}

----------------------------------------------------------------------------
(* The resolver on columns named like builtin functions *)

\* the configuration cols with its output column old declared under the
\* name new, and every reference to it following the name
Renamed(cols, old, new) ==
    LET To(x) == IF x = old THEN new ELSE x
    IN [i \in DOMAIN cols |->
           [cols[i] EXCEPT !.name = To(@), !.source = To(@),
                           !.transformation = {To(x) : x \in @}]]

\* the names an output column is declared under besides its positional name:
\* a key of SAFE_FUNCTIONS that analyze_expression excludes, and one that it
\* does not exclude
DeclaredNames == {"B", "max", "sorted"}

AnalysisInit ==
    /\ \E n \in 1..MaxCols :
          \E shape \in [1..n -> ResolverColumnSpecs("A", Names(n))],
             name \in DeclaredNames :
             columns = Renamed(Declare(shape), "B", name)
    /\ input_columns = InputColumns \ {"B"}
    /\ settings = DefaultSettings
    /\ ResolverIdle
    /\ RunIdle("none")
    /\ OthersIdle

SpecAnalysis == AnalysisInit /\ [][ResolverNext]_vars

----------------------------------------------------------------------------
(* TransformationEngine *)

\* the keys of SafeExpressionParser.SAFE_FUNCTIONS
SafeFunctionNames == {"abs", "max", "min", "round", "len", "str", "int", "float",
                      "bool", "sum", "any", "all", "sorted", "reversed",
                      "enumerate", "zip", "range", "list", "tuple", "set", "dict"}

\* the names evaluate_vectorized adds to the context
ContextExtras == {"np", "pd", "nan", "inf"}

\* the names the computation of a column looks up
ReadsOf(config) ==
    IF config.has_transformation THEN config.transformation ELSE {config.source}

\* _process_column: the computation raises when a name it looks up is neither
\* a column of the table nor a name of the context; otherwise, depending on
\* the data, it yields a series ("ok"), raises (evaluation, type conversion),
\* or yields a series that breaks one validation rule of the column
\* ("invalid"), which _validate_column hands to _handle_error
ProcessOutcomes(config, table) ==
    IF \A id \in ReadsOf(config) :
          id \in DOMAIN table \cup SafeFunctionNames \cup ContextExtras
    THEN {"ok", "raise"} \cup (IF config.validation THEN {"invalid"} ELSE {})
    ELSE {"raise"}

HandleErrorRaises_pastMax(n) == n > settings.max_errors \/ ~settings.ignore_errors

\* _handle_error raises after appending the n-th error
HandleErrorRaises(n) == n >= settings.max_errors \/ ~settings.ignore_errors

\* the errors _process_column hands to _handle_error itself
ValidationErrors(outcome) == IF outcome = "invalid" THEN 1 ELSE 0

\* whether _process_column raises: the computation raised, or _handle_error
\* raised for the validation error, the e-th error of the engine
ColumnRaises(outcome, e) ==
    outcome = "raise" \/ (outcome = "invalid" /\ HandleErrorRaises(e))

\* the error that occurred in the computation of a column
OccurredIn(outcome) ==
    IF outcome = "raise" THEN <<"column">>
    ELSE IF outcome = "invalid" THEN <<"validation">> ELSE <<>>

\* execution_plan["interim_columns"] and execution_plan["final_columns"]
InterimColumns(cols) == {cols[i].name : i \in {j \in DOMAIN cols : cols[j].interim}}
FinalColumns(cols) == Keys(cols) \ InterimColumns(cols)

----------------------------------------------------------------------------
(* FallbackProcessor *)

\* one record of EnhancedLogger.error_log
ErrorEntry(column, skipped) == [column |-> column, skipped |-> skipped]

\* reset_stats binds the three attributes to new lists
ResetStats ==
    /\ successful_columns' = <<>>
    /\ failed_columns' = <<>>
    /\ skipped_columns' = <<>>
    /\ stats_id' = stats_id + 1

\* the entry of process_with_fallback: reset_stats and start_processing,
\* which leaves the error log of the logger as it is
EnterCall ==
    /\ ResetStats
    /\ calls' = calls + 1
    /\ log_mark' = Len(error_log)

FallbackConfig(name) ==
    IF name \in DOMAIN settings.fallback_transformations
    THEN settings.fallback_transformations[name]
    ELSE NoFallback

\* whether the substitute can raise, depending on the data
FallbackRaiseChoices(name) ==
    IF FallbackConfig(name).type = "basic_calculation" THEN BOOLEAN ELSE {FALSE}

ApplyColumnFallback_ignored(table, name, raises) ==
    [applied |-> FALSE, table |-> table]

\* _apply_column_fallback: [applied, table]
ApplyColumnFallback(table, name, raises) ==
    LET fallback_config == FallbackConfig(name)
    IN IF fallback_config.type = "none" THEN [applied |-> FALSE, table |-> table]
       ELSE IF fallback_config.type = "default_value"
       THEN [applied |-> TRUE,
             table |-> SetColumn(table, name,
                         [origin |-> "default_value", of |-> fallback_config.value])]
       ELSE IF fallback_config.type = "copy_column"
       THEN IF fallback_config.source \in DOMAIN table
            THEN [applied |-> TRUE,
                  table |-> SetColumn(table, name, table[fallback_config.source])]
            ELSE [applied |-> FALSE, table |-> table]
       ELSE \* basic_calculation
            IF fallback_config.source \in DOMAIN table /\ ~raises
            THEN [applied |-> TRUE,
                  table |-> SetColumn(table, name,
                              [origin |-> fallback_config.operation,
                               of |-> fallback_config.source])]
            ELSE [applied |-> FALSE, table |-> table]

\* the ProcessingResult process_with_fallback builds from the result of the
\* mode, the lists of the processor and the error log of the logger
Returned(success, data, fallback_used, log) ==
    [success |-> success, data |-> data,
     successful_columns |-> successful_columns',
     failed_columns |-> failed_columns',
     skipped_columns |-> skipped_columns',
     error_log |-> log,
     fallback_used |-> fallback_used]

\* process_with_fallback in Partial mode, up to the call of plan_execution
PartialBegin ==
    /\ pc = "start"
    /\ settings.processing_mode = "partial"
    /\ EnterCall
    /\ result_df' = InputTable(input_columns)
    /\ StartPlan
    /\ pc' = "plan"
    /\ UNCHANGED <<configVars, threadVars, vectorVars, exprVars, chainVars,
                   run_order, idx, error_log, errors, attempts,
                   raised, fallback_applied, post_calls, result,
                   fallback_query_func, escalation_checks, returned,
                   outcomes, occurred>>

\* _process_partial_mode takes the planned order, or the declaration order
\* when plan_execution raised
PartialPlanned ==
    /\ pc = "plan"
    /\ settings.processing_mode = "partial"
    /\ PlanReturned
    /\ run_order' = IF rpc = "resolved" THEN execution_order ELSE KeyList(columns)
    /\ idx' = 1
    /\ pc' = "columns"
    /\ UNCHANGED <<configVars, threadVars, vectorVars, exprVars, chainVars,
                   resolverVars, result_df, successful_columns,
                   failed_columns, skipped_columns, error_log, errors, attempts,
                   raised, fallback_applied, post_calls, result, callVars,
                   outcomes, occurred>>

\* one iteration of the column loop of _process_partial_mode
PartialColumn ==
    /\ pc = "columns"
    /\ settings.processing_mode = "partial"
    /\ idx <= Len(run_order)
    /\ LET column_name == run_order[idx]
           column_config == ConfigOf(columns, column_name)
       IN \E outcome \in ProcessOutcomes(column_config, result_df) :
             LET e == errors + ValidationErrors(outcome)
             IN /\ attempts' = Append(attempts, column_name)
                /\ outcomes' = Append(outcomes, outcome)
                /\ occurred' = occurred \o OccurredIn(outcome)
                /\ errors' = e
                /\ IF ~ColumnRaises(outcome, e)
                   THEN /\ result_df' = SetColumn(result_df, column_name,
                                                  Computed(column_name))
                        /\ successful_columns' =
                              Append(successful_columns, column_name)
                        /\ UNCHANGED <<failed_columns, error_log, raised,
                                       fallback_applied>>
                   ELSE /\ failed_columns' = Append(failed_columns, column_name)
                        /\ raised' = Append(raised, column_name)
                        /\ error_log' =
                              Append(error_log, ErrorEntry(column_name, TRUE))
                        /\ \E raises \in FallbackRaiseChoices(column_name) :
                              LET fb == ApplyColumnFallback(result_df, column_name,
                                                            raises)
                              IN /\ result_df' = fb.table
                                 /\ fallback_applied' =
                                       IF fb.applied
                                       THEN fallback_applied \cup {column_name}
                                       ELSE fallback_applied
                        /\ UNCHANGED successful_columns
    /\ idx' = idx + 1
    /\ UNCHANGED <<configVars, threadVars, vectorVars, exprVars, chainVars,
                   resolverVars, pc, run_order, skipped_columns,
                   post_calls, result, callVars>>

Escalates_never(failed, cols) == FALSE

Escalates_atThreshold(failed, cols) ==
    /\ Len(failed) * 100 >= settings.failure_threshold * Len(cols)
    /\ settings.enable_fallback

\* failure_rate > self.failure_threshold and self.enable_fallback
Escalates(failed, cols) ==
    /\ Len(failed) * 100 > settings.failure_threshold * Len(cols)
    /\ settings.enable_fallback

\* _apply_post_processing: the collaborators that are invoked and the records
\* logged when they raise; [calls, log]
PostProcessing(filters_raise, sort_raises) ==
    [calls |-> (IF settings.has_filters THEN <<"filters">> ELSE <<>>)
               \o (IF settings.has_sort THEN <<"sort">> ELSE <<>>),
     log |-> (IF settings.has_filters /\ filters_raise
              THEN <<ErrorEntry("FILTERS", FALSE)>> ELSE <<>>)
             \o (IF settings.has_sort /\ sort_raises
                 THEN <<ErrorEntry("SORTING", FALSE)>> ELSE <<>>)]

ColumnPassDone_onFailure(i, order) ==
    i > Len(order) \/ (i > 1 /\ Escalates(failed_columns, columns))

\* the loop "for column_name in execution_order" is left when the order is
\* exhausted: its body has no break or return and catches every exception
ColumnPassDone(i, order) == i > Len(order)

PostProcessingRaises_uncaught(filters_raise, sort_raises) ==
    filters_raise \/ sort_raises

\* whether an exception leaves _apply_post_processing: each collaborator is
\* called in a try statement of its own whose handler logs the exception
PostProcessingRaises(filters_raise, sort_raises) == FALSE

\* the end of _process_partial_mode and the return of process_with_fallback;
\* a filter or a sort that fails hands its error to _handle_error of the
\* engine, and the collaborator raises when _handle_error does
PartialFinish ==
    /\ pc = "columns"
    /\ settings.processing_mode = "partial"
    /\ ColumnPassDone(idx, run_order)
    /\ escalation_checks' = escalation_checks + 1
    /\ UNCHANGED <<successful_columns, failed_columns, skipped_columns>>
    /\ IF Escalates(failed_columns, columns)
       THEN /\ result' = Returned(FALSE, result_df, TRUE, error_log)
            /\ UNCHANGED <<error_log, post_calls, errors, occurred>>
       ELSE \E filter_fails \in (IF settings.has_filters THEN BOOLEAN ELSE {FALSE}),
               sort_fails \in (IF settings.has_sort THEN BOOLEAN ELSE {FALSE}) :
               LET e1 == errors + (IF filter_fails THEN 1 ELSE 0)
                   filters_raise == filter_fails /\ HandleErrorRaises(e1)
                   e2 == e1 + (IF sort_fails THEN 1 ELSE 0)
                   sort_raises == sort_fails /\ HandleErrorRaises(e2)
                   post == PostProcessing(filters_raise, sort_raises)
               IN /\ errors' = e2
                  /\ occurred' = occurred
                                 \o (IF filter_fails THEN <<"filters">> ELSE <<>>)
                                 \o (IF sort_fails THEN <<"sort">> ELSE <<>>)
                  /\ post_calls' = post_calls \o post.calls
                  /\ IF PostProcessingRaises(filters_raise, sort_raises)
                     THEN /\ error_log' =
                                Append(error_log, ErrorEntry("SYSTEM", FALSE))
                          /\ result' = Returned(FALSE, InputTable(input_columns),
                                                FALSE, error_log')
                     ELSE /\ error_log' = error_log \o post.log
                          /\ result' = Returned(Len(successful_columns) > 0,
                                                result_df, FALSE, error_log')
    /\ pc' = "done"
    /\ UNCHANGED <<configVars, threadVars, vectorVars, exprVars, chainVars,
                   resolverVars, run_order, idx, result_df,
                   attempts, raised, fallback_applied, fallback_query_func,
                   calls, stats_id, log_mark, returned, outcomes>>

\* the exception of transform leaves _process_strict_mode, which logs it and
\* raises it again, and process_with_fallback logs it and returns the input
StrictAbort ==
    /\ error_log' = error_log \o <<ErrorEntry("TRANSFORMATION", FALSE),
                                   ErrorEntry("SYSTEM", FALSE)>>
    /\ UNCHANGED <<successful_columns, failed_columns, skipped_columns>>
    /\ result' = Returned(FALSE, InputTable(input_columns), FALSE, error_log')
    /\ pc' = "done"

\* process_with_fallback in Strict mode, up to the call of plan_execution in
\* TransformationEngine.transform
StrictBegin ==
    /\ pc = "start"
    /\ settings.processing_mode = "strict"
    /\ EnterCall
    /\ errors' = 0
    /\ StartPlan
    /\ pc' = "plan"
    /\ UNCHANGED <<configVars, threadVars, vectorVars, exprVars, chainVars,
                   run_order, idx, result_df, error_log, attempts,
                   raised, fallback_applied, post_calls, result,
                   fallback_query_func, escalation_checks, returned,
                   outcomes, occurred>>

\* transform takes the planned order; when plan_execution raised it records
\* the error and falls back to the declaration order
TransformPlanned ==
    /\ pc = "plan"
    /\ settings.processing_mode = "strict"
    /\ PlanReturned
    /\ IF rpc = "resolved"
       THEN /\ run_order' = execution_order
            /\ idx' = 1
            /\ result_df' = InputTable(input_columns)
            /\ pc' = "columns"
            /\ UNCHANGED <<errors, error_log, successful_columns, failed_columns,
                           skipped_columns, result, occurred>>
       ELSE /\ errors' = errors + 1
            /\ occurred' = Append(occurred, "plan")
            /\ IF HandleErrorRaises(errors')
               THEN /\ StrictAbort
                    /\ UNCHANGED <<run_order, idx, result_df>>
               ELSE /\ run_order' = KeyList(columns)
                    /\ idx' = 1
                    /\ result_df' = InputTable(input_columns)
                    /\ pc' = "columns"
                    /\ UNCHANGED <<error_log, successful_columns, failed_columns,
                                   skipped_columns, result>>
    /\ UNCHANGED <<configVars, threadVars, vectorVars, exprVars, chainVars,
                   resolverVars, attempts, raised, fallback_applied,
                   post_calls, callVars, outcomes>>

\* one iteration of the column loop of transform; an exception of
\* _process_column (that of _handle_error for a validation error included)
\* is handed to _handle_error
TransformColumn ==
    /\ pc = "columns"
    /\ settings.processing_mode = "strict"
    /\ idx <= Len(run_order)
    /\ LET column_name == run_order[idx]
           column_config == ConfigOf(columns, column_name)
       IN \E outcome \in ProcessOutcomes(column_config, result_df) :
             LET e == errors + ValidationErrors(outcome)
             IN /\ attempts' = Append(attempts, column_name)
                /\ outcomes' = Append(outcomes, outcome)
                /\ occurred' = occurred \o OccurredIn(outcome)
                /\ IF ~ColumnRaises(outcome, e)
                   THEN /\ result_df' = SetColumn(result_df, column_name,
                                                  Computed(column_name))
                        /\ idx' = idx + 1
                        /\ errors' = e
                        /\ UNCHANGED <<error_log, successful_columns,
                                       failed_columns, skipped_columns, result,
                                       pc, raised>>
                   ELSE /\ errors' = e + 1
                        /\ raised' = Append(raised, column_name)
                        /\ result_df' = result_df
                        /\ IF HandleErrorRaises(errors')
                           THEN /\ StrictAbort
                                /\ idx' = idx
                           ELSE /\ idx' = idx + 1
                                /\ UNCHANGED <<error_log, successful_columns,
                                               failed_columns, skipped_columns,
                                               result, pc>>
    /\ UNCHANGED <<configVars, threadVars, vectorVars, exprVars, chainVars,
                   resolverVars, run_order, fallback_applied,
                   post_calls, callVars>>

\* the end of transform (final columns, filters, sorting), the return of
\* _process_strict_mode and the return of process_with_fallback
TransformFinish ==
    /\ pc = "columns"
    /\ settings.processing_mode = "strict"
    /\ idx > Len(run_order)
    /\ \E filters_raise \in (IF settings.has_filters THEN BOOLEAN ELSE {FALSE}),
          sort_raises \in (IF settings.has_sort THEN BOOLEAN ELSE {FALSE}) :
          LET final_columns == IF rpc = "resolved" THEN FinalColumns(columns)
                               ELSE Keys(columns)
              columns_to_keep == input_columns
                                 \cup (final_columns \cap DOMAIN result_df)
              e1 == errors + (IF settings.has_filters /\ filters_raise THEN 1 ELSE 0)
              abort1 == settings.has_filters /\ filters_raise /\ HandleErrorRaises(e1)
              sorting == ~abort1 /\ settings.has_sort
              e2 == e1 + (IF sorting /\ sort_raises THEN 1 ELSE 0)
              abort2 == sorting /\ sort_raises /\ HandleErrorRaises(e2)
          IN /\ errors' = e2
             /\ occurred' = occurred
                            \o (IF settings.has_filters /\ filters_raise
                                THEN <<"filters">> ELSE <<>>)
                            \o (IF sorting /\ sort_raises THEN <<"sort">> ELSE <<>>)
             /\ post_calls' = post_calls
                              \o (IF settings.has_filters THEN <<"filters">> ELSE <<>>)
                              \o (IF sorting THEN <<"sort">> ELSE <<>>)
             /\ IF abort1 \/ abort2
                THEN StrictAbort
                ELSE /\ successful_columns' = KeyList(columns)
                     /\ UNCHANGED <<failed_columns, skipped_columns, error_log>>
                     /\ result' = Returned(TRUE, Restrict(result_df, columns_to_keep),
                                           FALSE, error_log)
                     /\ pc' = "done"
    /\ UNCHANGED <<configVars, threadVars, vectorVars, exprVars, chainVars,
                   resolverVars, run_order, idx, result_df, attempts,
                   raised, fallback_applied, callVars, outcomes>>

\* the table the external fallback data-supplier returns
SupplierTable == [c \in {"q"} |-> [origin |-> "supplier", of |-> c]]

\* the output columns _apply_basic_transformations copies: those whose
\* source is a column of the input
BasicCopied(cols, inputs) == {cols[i].name : i \in {j \in DOMAIN cols :
                                                     cols[j].source \in inputs}}

\* _apply_basic_transformations: every column whose source is a column of
\* the input is copied from it and then converted to its type; when the
\* conversion raises (coercion_raises) the copy stays as it is
BasicTransformations(cols, inputs, coercion_raises) ==
    LET copied == BasicCopied(cols, inputs)
        SourceOf(name) == ConfigOf(cols, name).source
    IN [c \in inputs \cup copied |->
           IF c \in copied
           THEN [origin |-> IF c \in coercion_raises THEN "unconverted" ELSE "basic",
                 of |-> SourceOf(c)]
           ELSE [origin |-> "input", of |-> c]]

BasicPathRaises_onCoercion(coercion_raises) == coercion_raises # {}

\* whether an exception leaves the loop of _apply_basic_transformations: its
\* body is one try statement whose handler continues with the next column
BasicPathRaises(coercion_raises) == FALSE

FallbackData_basicOnly(supplier, coercion_raises) ==
    BasicTransformations(columns, input_columns, coercion_raises)

\* the data of the result of _process_fallback_mode: what the supplier
\* returned, or the basic transformations when there is no supplier or it
\* raised
FallbackData(supplier, coercion_raises) ==
    IF supplier = "returns" THEN SupplierTable
    ELSE BasicTransformations(columns, input_columns, coercion_raises)

\* process_with_fallback in Fallback mode
FallbackRun ==
    /\ pc = "start"
    /\ settings.processing_mode = "fallback"
    /\ EnterCall
    /\ \E supplier \in {"absent", "returns", "raises"} :
          /\ fallback_query_func' = supplier
          /\ \E coercion_raises \in
                   (IF supplier = "returns" THEN {{}}
                    ELSE SUBSET BasicCopied(columns, input_columns)) :
                LET query_log == IF supplier = "raises"
                                 THEN <<ErrorEntry("FALLBACK_QUERY", FALSE)>>
                                 ELSE <<>>
                IN IF supplier # "returns" /\ BasicPathRaises(coercion_raises)
                   THEN /\ error_log' = error_log \o query_log
                                        \o <<ErrorEntry("SYSTEM", FALSE)>>
                        /\ result' = Returned(FALSE, InputTable(input_columns),
                                              FALSE, error_log')
                   ELSE /\ error_log' = error_log \o query_log
                        /\ result' = Returned(TRUE,
                                              FallbackData(supplier, coercion_raises),
                                              TRUE, error_log')
    /\ pc' = "done"
    /\ UNCHANGED <<configVars, threadVars, vectorVars, exprVars, chainVars,
                   resolverVars, run_order, idx, result_df, errors,
                   attempts, raised, fallback_applied, post_calls,
                   escalation_checks, returned, outcomes, occurred>>

----------------------------------------------------------------------------
(* Runs of process_with_fallback *)

\* the column specifications that are run: a copy of the input column a, a
\* copy of the input column B (for the output column B, its default source)
\* and a transformation that reads the output column A
RunColumnSpecs ==
    {SourceColumn("A", "a"), SourceColumn("A", "B"), ExprColumn("A", {"A"})}

\* fallback_transformations: no entry, or one entry for one of the first two
\* columns
FallbackMaps(n) ==
    {[c \in {} |-> NoFallback]}
    \cup {[c \in {name} |-> kind] :
             name \in Names(n) \cap {"A", "B"}, kind \in FallbackKinds}

\* the global settings and output keys that are run: in Partial mode every
\* threshold without fallback transformations, and every map of fallback
\* transformations with the default threshold
RunSettings(n) ==
    {[DefaultSettings EXCEPT !.processing_mode = "partial",
                             !.failure_threshold = t,
                             !.enable_fallback = e,
                             !.has_filters = p, !.has_sort = p] :
        t \in {25, 50, 75}, e \in BOOLEAN, p \in BOOLEAN}
    \cup {[DefaultSettings EXCEPT !.processing_mode = "partial",
                                  !.enable_fallback = e,
                                  !.fallback_transformations = f,
                                  !.has_filters = p, !.has_sort = p] :
        e \in BOOLEAN, f \in FallbackMaps(n), p \in BOOLEAN}
    \cup {[DefaultSettings EXCEPT !.ignore_errors = i, !.max_errors = m,
                                  !.has_filters = p, !.has_sort = p] :
        i \in BOOLEAN, m \in {1, DefaultMaxErrors}, p \in BOOLEAN}
    \cup {[DefaultSettings EXCEPT !.processing_mode = "fallback"]}

Init ==
    /\ \E n \in 1..MaxRunCols :
          /\ \E shape \in [1..n -> RunColumnSpecs] : columns = Declare(shape)
          /\ settings \in RunSettings(n)
    /\ input_columns = InputColumns
    /\ ResolverIdle
    /\ RunIdle("start")
    /\ OthersIdle

Next ==
    \/ PartialBegin \/ PartialPlanned \/ PartialColumn \/ PartialFinish
    \/ StrictBegin \/ TransformPlanned \/ TransformColumn \/ TransformFinish
    \/ FallbackRun
    \/ KahnStep \/ KahnFinish

Spec == Init /\ [][Next]_vars

----------------------------------------------------------------------------
(* Runs of TransformationEngine.transform with validation rules *)

\* largest number of output columns of a configuration given to transform
MaxTransformCols == 3

\* the column specifications transform is run with: a copy of the input
\* column a, the same with validation rules, a copy of the input column B
\* (for the output column B, its default source) and a transformation that
\* reads the output column A
TransformColumnSpecs ==
    {SourceColumn("A", "a"), Validated(SourceColumn("A", "a")),
     SourceColumn("A", "B"), ExprColumn("A", {"A"})}

\* the global settings and output keys transform is run with
TransformSettings ==
    {[DefaultSettings EXCEPT !.ignore_errors = i, !.max_errors = m,
                             !.has_filters = p, !.has_sort = p] :
        i \in BOOLEAN, m \in {1, 2, DefaultMaxErrors}, p \in BOOLEAN}

TransformInit ==
    /\ \E n \in 1..MaxTransformCols :
          \E shape \in [1..n -> TransformColumnSpecs] : columns = Declare(shape)
    /\ settings \in TransformSettings
    /\ input_columns = InputColumns
    /\ ResolverIdle
    /\ RunIdle("start")
    /\ OthersIdle

TransformNext ==
    \/ StrictBegin \/ TransformPlanned \/ TransformColumn \/ TransformFinish
    \/ KahnStep \/ KahnFinish

SpecTransform == TransformInit /\ [][TransformNext]_vars

----------------------------------------------------------------------------
(* Repeated calls of process_with_fallback on one processor *)

\* largest number of calls of process_with_fallback on the processor
MaxCalls == 2
\* largest number of output columns of a configuration that is run repeatedly
MaxCallCols == 2

\* the column specifications that are run repeatedly: a copy of the input
\* column a, a source that is no column at all, a transformation that reads
\* the output column A, a transformation that reads the input column a and a
\* name that is no column at all, an interim copy of the input column a, and
\* a copy of the input column a with validation rules
CallColumnSpecs ==
    {SourceColumn("A", "a"), SourceColumn("A", "missing"),
     ExprColumn("A", {"A"}), ExprColumn("A", {"a", "missing"}),
     Interim(SourceColumn("A", "a")), Validated(SourceColumn("A", "a"))}

\* the global settings that are run repeatedly
CallSettings ==
    {[DefaultSettings EXCEPT !.processing_mode = "partial",
                             !.enable_fallback = e] : e \in BOOLEAN}
    \cup {[DefaultSettings EXCEPT !.processing_mode = "partial",
                                  !.ignore_errors = TRUE, !.max_errors = 2]}
    \cup {[DefaultSettings EXCEPT !.ignore_errors = i] : i \in BOOLEAN}
    \cup {[DefaultSettings EXCEPT !.processing_mode = "fallback"]}

\* what the caller holds of a returned ProcessingResult: its fields, and the
\* identity of the lists its three column fields are bound to
Held(r, id) ==
    [result |-> r, stats_id |-> id, processing_mode |-> settings.processing_mode,
     attempts |-> attempts, outcomes |-> outcomes]

\* process_with_fallback has returned and the caller, keeping the result,
\* is about to call it again on the same processor, logger and engine
NextCall ==
    /\ pc = "done"
    /\ calls < MaxCalls
    /\ returned' = Append(returned, Held(result, stats_id))
    /\ pc' = "start"
    /\ run_order' = <<>>
    /\ idx' = 0
    /\ result_df' = <<>>
    /\ attempts' = <<>>
    /\ raised' = <<>>
    /\ fallback_applied' = {}
    /\ post_calls' = <<>>
    /\ result' = NoResult
    /\ fallback_query_func' = "none"
    /\ escalation_checks' = 0
    /\ outcomes' = <<>>
    /\ occurred' = <<>>
    /\ UNCHANGED <<configVars, threadVars, vectorVars, resolverVars, exprVars, chainVars,
                   successful_columns, failed_columns, skipped_columns,
                   error_log, errors, calls, stats_id, log_mark>>

CallsInit ==
    /\ \E n \in 1..MaxCallCols :
          \E shape \in [1..n -> CallColumnSpecs] : columns = Declare(shape)
    /\ settings \in CallSettings
    /\ input_columns = InputColumns
    /\ ResolverIdle
    /\ RunIdle("start")
    /\ OthersIdle

CallsNext == Next \/ NextCall

SpecCalls == CallsInit /\ [][CallsNext]_vars

----------------------------------------------------------------------------
(* Calls of process_with_fallback that run at once on one processor *)

\* the two calls running at once
Threads == {1, 2}
\* largest number of output columns of a configuration run by calls at once
MaxThreadCols == 2

\* the column specifications run by calls at once: a copy of the input
\* column a and a transformation that reads it; neither reads an output
\* column
ThreadColumnSpecs == {SourceColumn("A", "a"), ExprColumn("A", {"a"})}

\* the frame of a call of process_with_fallback before its first statement:
\* its position, the locals execution_order and result_df and the position
\* of its column loop, what its own columns did, and what it returned
ThreadIdle ==
    [pc |-> "start", execution_order |-> <<>>, idx |-> 0, result_df |-> <<>>,
     succeeded |-> <<>>, failed |-> <<>>, logged |-> <<>>, result |-> NoResult]

\* the order plan_execution returns for columns none of which depends on an
\* output column: every column is in the initial queue, in declaration order
ThreadPlan(cols, inputs) ==
    InitialQueue(cols, InDegree(build_dependency_graph(cols, inputs), cols, inputs))

\* the call t from its first statement to the start of its column loop:
\* reset_stats binds the attributes of the processor to new lists
ThreadBegin(t) ==
    /\ threads[t].pc = "start"
    /\ ResetStats
    /\ threads' = [threads EXCEPT ![t] =
                      [@ EXCEPT !.pc = "columns",
                                !.execution_order = ThreadPlan(columns, input_columns),
                                !.idx = 1,
                                !.result_df = InputTable(input_columns)]]
    /\ UNCHANGED <<configVars, vectorVars, resolverVars, exprVars, chainVars,
                   pc, run_order, idx, result_df, error_log, errors, attempts,
                   raised, fallback_applied, post_calls, result,
                   fallback_query_func, escalation_checks, calls, log_mark,
                   returned, outcomes, occurred>>

\* one iteration of the column loop of the call t: the column is appended to
\* the list the attribute of the processor is bound to at that moment, and a
\* failure is recorded in the error log of the logger
ThreadColumn(t) ==
    /\ threads[t].pc = "columns"
    /\ threads[t].idx <= Len(threads[t].execution_order)
    /\ LET self == threads[t]
           column_name == self.execution_order[self.idx]
           column_config == ConfigOf(columns, column_name)
       IN \E outcome \in ProcessOutcomes(column_config, self.result_df) :
             IF ~ColumnRaises(outcome, errors)
             THEN /\ successful_columns' = Append(successful_columns, column_name)
                  /\ threads' = [threads EXCEPT ![t] =
                        [@ EXCEPT !.idx = @ + 1,
                                  !.result_df = SetColumn(@, column_name,
                                                          Computed(column_name)),
                                  !.succeeded = Append(@, column_name)]]
                  /\ UNCHANGED <<failed_columns, error_log>>
             ELSE /\ failed_columns' = Append(failed_columns, column_name)
                  /\ error_log' = Append(error_log, ErrorEntry(column_name, TRUE))
                  /\ threads' = [threads EXCEPT ![t] =
                        [@ EXCEPT !.idx = @ + 1,
                                  !.failed = Append(@, column_name),
                                  !.logged = Append(@, ErrorEntry(column_name,
                                                                  TRUE))]]
                  /\ UNCHANGED successful_columns
    /\ UNCHANGED <<configVars, vectorVars, resolverVars, exprVars, chainVars,
                   pc, run_order, idx, result_df, skipped_columns, errors,
                   attempts, raised, fallback_applied, post_calls, result,
                   callVars, outcomes, occurred>>

\* the end of _process_partial_mode and the return of the call t: the result
\* is built from the attributes of the processor and of the logger
ThreadFinish(t) ==
    /\ threads[t].pc = "columns"
    /\ ColumnPassDone(threads[t].idx, threads[t].execution_order)
    /\ UNCHANGED <<successful_columns, failed_columns, skipped_columns>>
    /\ threads' = [threads EXCEPT ![t] =
          [@ EXCEPT !.pc = "done",
                    !.result =
                       IF Escalates(failed_columns, columns)
                       THEN Returned(FALSE, threads[t].result_df, TRUE, error_log)
                       ELSE Returned(Len(successful_columns) > 0,
                                     threads[t].result_df, FALSE, error_log)]]
    /\ UNCHANGED <<configVars, vectorVars, resolverVars, exprVars, chainVars,
                   pc, run_order, idx, result_df, error_log, errors, attempts,
                   raised, fallback_applied, post_calls, result, callVars,
                   outcomes, occurred>>

ThreadsInit ==
    /\ \E n \in 1..MaxThreadCols :
          \E shape \in [1..n -> ThreadColumnSpecs] : columns = Declare(shape)
    /\ settings \in {[DefaultSettings EXCEPT !.processing_mode = "partial",
                                             !.enable_fallback = e] :
                         e \in BOOLEAN}
    /\ input_columns = InputColumns
    /\ ResolverIdle
    /\ RunIdle("none")
    /\ expression = NoExpression
    /\ context = <<>>
    /\ ExprIdle("none")
    /\ series = <<>>
    /\ operations = <<>>
    /\ ChainIdle("none")
    /\ threads = [t \in Threads |-> ThreadIdle]
    /\ VectorIdle

ThreadsNext ==
    \E t \in Threads : ThreadBegin(t) \/ ThreadColumn(t) \/ ThreadFinish(t)

SpecThreads == ThreadsInit /\ [][ThreadsNext]_vars

----------------------------------------------------------------------------
(* The same configuration on the normal path and on the Partial path *)

\* the call in Strict mode (the normal path: transform) has returned, and a
\* processor, logger and engine constructed for the same output columns in
\* Partial mode are about to be called with the same input
OtherPath ==
    /\ pc = "done"
    /\ settings.processing_mode = "strict"
    /\ returned = <<>>
    /\ returned' = <<Held(result, stats_id)>>
    /\ settings' = [settings EXCEPT !.processing_mode = "partial"]
    /\ pc' = "start"
    /\ run_order' = <<>>
    /\ idx' = 0
    /\ result_df' = <<>>
    /\ successful_columns' = <<>>
    /\ failed_columns' = <<>>
    /\ skipped_columns' = <<>>
    /\ error_log' = <<>>
    /\ errors' = 0
    /\ attempts' = <<>>
    /\ raised' = <<>>
    /\ fallback_applied' = {}
    /\ post_calls' = <<>>
    /\ result' = NoResult
    /\ fallback_query_func' = "none"
    /\ escalation_checks' = 0
    /\ calls' = 0
    /\ stats_id' = 0
    /\ log_mark' = 0
    /\ outcomes' = <<>>
    /\ occurred' = <<>>
    /\ UNCHANGED <<columns, input_columns, resolverVars, exprVars, chainVars,
                   threadVars, vectorVars>>

PathsNext ==
    \/ StrictBegin \/ TransformPlanned \/ TransformColumn \/ TransformFinish
    \/ OtherPath
    \/ PartialBegin \/ PartialPlanned \/ PartialColumn \/ PartialFinish
    \/ KahnStep \/ KahnFinish

SpecPaths == TransformInit /\ [][PathsNext]_vars

----------------------------------------------------------------------------
(* SafeExpressionParser *)

\* a node of the tree ast.parse returns: its class, the id of a Name, and its
\* child nodes in the order of ast.iter_child_nodes (for a BinOp: left, op,
\* right; for a Call: func, then the arguments; for a Name: ctx)
Node(kind, id, kids) == [kind |-> kind, id |-> id, kids |-> kids]

\* "f('x')" for a name f
CallExpression(text, f) ==
    [text |-> text, syntax_ok |-> TRUE,
     nodes |-> <<Node("Expression", "", <<2>>), Node("Call", "", <<3, 4>>),
                 Node("Name", f, <<5>>), Node("Constant", "", <<>>),
                 Node("Load", "", <<>>)>>]

\* "a op b" for a binary operator of class op
BinOpExpression(text, op) ==
    [text |-> text, syntax_ok |-> TRUE,
     nodes |-> <<Node("Expression", "", <<2>>), Node("BinOp", "", <<3, 4, 5>>),
                 Node("Name", "a", <<6>>), Node(op, "", <<>>),
                 Node("Name", "b", <<7>>), Node("Load", "", <<>>),
                 Node("Load", "", <<>>)>>]

ImportOs == CallExpression("__import__('os')", "__import__")
ExecX == CallExpression("exec('x')", "exec")
APlusB == BinOpExpression("a + b", "Add")

\* the expressions that are parsed
Expressions ==
    {ImportOs, ExecX, APlusB,
     BinOpExpression("a @ b", "MatMult"),
     [text |-> "lambda: exec", syntax_ok |-> TRUE,
      nodes |-> <<Node("Expression", "", <<2>>), Node("Lambda", "", <<3, 4>>),
                  Node("arguments", "", <<>>), Node("Name", "exec", <<5>>),
                  Node("Load", "", <<>>)>>],
     [text |-> "abs(a)", syntax_ok |-> TRUE,
      nodes |-> <<Node("Expression", "", <<2>>), Node("Call", "", <<3, 4>>),
                  Node("Name", "abs", <<5>>), Node("Name", "a", <<6>>),
                  Node("Load", "", <<>>), Node("Load", "", <<>>)>>],
     [text |-> "abs(a) + exec('x')", syntax_ok |-> TRUE,
      nodes |-> <<Node("Expression", "", <<2>>), Node("BinOp", "", <<3, 4, 5>>),
                  Node("Call", "", <<6, 7>>), Node("Add", "", <<>>),
                  Node("Call", "", <<8, 9>>), Node("Name", "abs", <<10>>),
                  Node("Name", "a", <<11>>), Node("Name", "exec", <<12>>),
                  Node("Constant", "", <<>>), Node("Load", "", <<>>),
                  Node("Load", "", <<>>), Node("Load", "", <<>>)>>],
     [text |-> "a +", syntax_ok |-> FALSE, nodes |-> <<>>]}

\* the values of the evaluation: column data or a number, a function of the
\* safe-function table, a module
DataValue == [kind |-> "data", name |-> ""]
FunctionValue(name) == [kind |-> "function", name |-> name]
ModuleValue(name) == [kind |-> "module", name |-> name]

\* the column names a table can bind
BindableNames == {"a", "b", "exec", "__import__"}

\* the context evaluate_vectorized builds from the columns of a table
ContextOf(cols) ==
    [n \in cols \cup ContextExtras |->
        IF n \in cols THEN DataValue
        ELSE IF n \in {"np", "pd"} THEN ModuleValue(n) ELSE DataValue]

\* the operator classes that are keys of SAFE_OPERATORS
SafeOperators == {"Add", "Sub", "Mult", "Div", "FloorDiv", "Mod", "Pow",
                  "LShift", "RShift", "BitOr", "BitXor", "BitAnd", "Eq",
                  "NotEq", "Lt", "LtE", "Gt", "GtE", "Is", "IsNot", "In",
                  "NotIn", "UAdd", "USub", "Not", "Invert"}

\* the node classes _validate_ast passes without a further test
PassedNodes == {"Name", "Constant", "Num", "Str", "Bytes", "NameConstant",
                "Ellipsis", "Call", "Attribute", "Subscript", "List", "Tuple",
                "Dict", "Set", "ListComp", "SetComp", "DictComp", "IfExp",
                "BoolOp", "Expression", "Load", "Store", "Del", "And", "Or",
                "Index", "Slice"}

\* ast.walk(tree): breadth-first from the nodes in todo
RECURSIVE Walk(_, _)
Walk(nodes, todo) ==
    IF todo = <<>> THEN <<>>
    ELSE <<Head(todo)>> \o Walk(nodes, Tail(todo) \o nodes[Head(todo)].kids)

ValidateChild_rejectsCall(nodes, i) ==
    IF nodes[i].kind = "Call" THEN "Unsafe AST node type" ELSE "ok"

\* the body of the loop of _validate_ast for the node i: "ok" or the error
ValidateChild(nodes, i) ==
    LET child == nodes[i]
    IN IF child.kind = "BinOp"
       THEN IF nodes[child.kids[2]].kind \notin SafeOperators
            THEN "Unsafe binary operator" ELSE "ok"
       ELSE IF child.kind \in PassedNodes \cup SafeOperators THEN "ok"
       ELSE "Unsafe AST node type"

\* an exception leaves _eval_node
Raise(st, error) == [st EXCEPT !.status = "raise", !.error = error]

\* _eval_node for the node i, and for a list of nodes one after the other;
\* st = [status, error, evaluated, called, value]; after an exception nothing
\* more is evaluated
RECURSIVE eval_node(_, _, _, _)
RECURSIVE eval_nodes(_, _, _, _)
eval_node(nodes, i, ctx, st) ==
    IF st.status # "ok" THEN st
    ELSE LET node == nodes[i]
             s0 == [st EXCEPT !.evaluated = Append(@, i)]
         IN IF node.kind = "Constant" THEN [s0 EXCEPT !.value = DataValue]
            ELSE IF node.kind = "Name"
            THEN IF node.id \in DOMAIN ctx
                 THEN [s0 EXCEPT !.value = ctx[node.id]]
                 ELSE IF node.id \in SafeFunctionNames
                 THEN [s0 EXCEPT !.value = FunctionValue(node.id)]
                 ELSE Raise(s0, "NameError")
            ELSE IF node.kind = "BinOp"
            THEN LET left == eval_node(nodes, node.kids[1], ctx, s0)
                     right == eval_node(nodes, node.kids[3], ctx, left)
                 IN IF right.status # "ok" THEN right
                    ELSE IF left.value.kind = "data" /\ right.value.kind = "data"
                    THEN [right EXCEPT !.value = DataValue]
                    ELSE Raise(right, "TypeError")
            ELSE IF node.kind = "Call"
            THEN LET func == eval_node(nodes, Head(node.kids), ctx, s0)
                     args == eval_nodes(nodes, Tail(node.kids), ctx, func)
                 IN IF args.status # "ok" THEN args
                    ELSE IF func.value.kind = "function"
                    THEN [args EXCEPT !.called = Append(@, func.value.name),
                                      !.value = DataValue]
                    ELSE Raise(args, "TypeError")
            ELSE Raise(s0, "Unsupported node type")
eval_nodes(nodes, is, ctx, st) ==
    IF is = <<>> THEN st
    ELSE eval_nodes(nodes, Tail(is), ctx, eval_node(nodes, Head(is), ctx, st))

\* parse raises ValueError for the exception error
ParseRaises(error) ==
    /\ epc' = "raised"
    /\ cause' = error

\* ast.parse(expression, mode="eval")
AstParse ==
    /\ epc = "start"
    /\ IF expression.syntax_ok
       THEN /\ epc' = "validate"
            /\ vpos' = 1
            /\ UNCHANGED cause
       ELSE /\ ParseRaises("SyntaxError")
            /\ UNCHANGED vpos
    /\ UNCHANGED <<expression, context, evaluated, called, configVars, threadVars, vectorVars,
                   resolverVars, runVars, chainVars>>

\* one iteration of the loop of _validate_ast
ValidateNode ==
    /\ epc = "validate"
    /\ vpos <= Len(Walk(expression.nodes, <<1>>))
    /\ LET check == ValidateChild(expression.nodes,
                                  Walk(expression.nodes, <<1>>)[vpos])
       IN IF check = "ok"
          THEN /\ vpos' = vpos + 1
               /\ UNCHANGED <<epc, cause>>
          ELSE /\ ParseRaises(check)
               /\ UNCHANGED vpos
    /\ UNCHANGED <<expression, context, evaluated, called, configVars, threadVars, vectorVars,
                   resolverVars, runVars, chainVars>>

\* self._eval_node(tree.body, context) and the return of parse
Evaluate ==
    /\ epc = "validate"
    /\ vpos > Len(Walk(expression.nodes, <<1>>))
    /\ LET body == expression.nodes[1].kids[1]
           st == eval_node(expression.nodes, body, context,
                           [status |-> "ok", error |-> "none",
                            evaluated |-> <<>>, called |-> <<>>,
                            value |-> DataValue])
       IN /\ evaluated' = st.evaluated
          /\ called' = st.called
          /\ IF st.status = "ok"
             THEN epc' = "returned" /\ UNCHANGED cause
             ELSE ParseRaises(st.error)
    /\ UNCHANGED <<expression, context, vpos, configVars, threadVars, vectorVars, resolverVars,
                   runVars, chainVars>>

ExprInit ==
    /\ expression \in Expressions
    /\ \E cols \in SUBSET BindableNames : context = ContextOf(cols)
    /\ ExprIdle("start")
    /\ columns = <<>>
    /\ input_columns = {}
    /\ settings = DefaultSettings
    /\ ResolverIdle
    /\ RunIdle("none")
    /\ series = <<>>
    /\ operations = <<>>
    /\ ChainIdle("none")
    /\ threads = <<>>
    /\ VectorIdle

ExprNext == AstParse \/ ValidateNode \/ Evaluate

SpecExpr == ExprInit /\ [][ExprNext]_vars

----------------------------------------------------------------------------
(* ExpressionParser.evaluate_vectorized *)

\* largest number of rows of a table given to evaluate_vectorized
MaxRows == 3

\* the tables with n rows, a numeric column a and a string column s (a
\* string is the sequence of its characters)
Tables(n) == [a : [1..n -> {0, 1}], s : [1..n -> {<<"x">>, <<"x", "y">>}]]

\* "P if test else N" with the test at nodes 3.. (ctx nodes are left out)
IfExpExpression(text, test) ==
    [text |-> text, syntax_ok |-> TRUE,
     nodes |-> <<Node("Expression", "", <<2>>),
                 Node("IfExp", "", <<4, Len(test) + 4, Len(test) + 5>>),
                 Node("Pass", "", <<>>)>>
               \o test
               \o <<Node("Constant", "P", <<>>), Node("Constant", "N", <<>>)>>]

\* "a > 0" and "len(s) > 1" with their first node at position i
AGreaterZero(i) ==
    <<Node("Compare", "Gt", <<i + 1, i + 2>>), Node("Name", "a", <<>>),
      Node("Constant", "0", <<>>)>>
LenSGreaterOne(i) ==
    <<Node("Compare", "Gt", <<i + 1, i + 4>>), Node("Call", "", <<i + 2, i + 3>>),
      Node("Name", "len", <<>>), Node("Name", "s", <<>>),
      Node("Constant", "1", <<>>)>>

\* "left op right" for op in {And, Or}, with left at node 3
BoolOpExpression(text, op, left, right) ==
    [text |-> text, syntax_ok |-> TRUE,
     nodes |-> <<Node("Expression", "", <<2>>),
                 Node("BoolOp", op, <<3, Len(left) + 3>>)>>
               \o left \o right]

\* the conditional and boolean expressions that are evaluated
VectorExpressions ==
    {IfExpExpression("'P' if a > 0 else 'N'", AGreaterZero(4)),
     IfExpExpression("'P' if len(s) > 1 else 'N'", LenSGreaterOne(4)),
     BoolOpExpression("a > 0 and len(s) > 1", "And",
                      AGreaterZero(3), LenSGreaterOne(6)),
     BoolOpExpression("len(s) > 1 and a > 0", "And",
                      LenSGreaterOne(3), AGreaterZero(8)),
     BoolOpExpression("a > 0 or len(s) > 1", "Or",
                      AGreaterZero(3), LenSGreaterOne(6)),
     BoolOpExpression("len(s) > 1 or a > 0", "Or",
                      LenSGreaterOne(3), AGreaterZero(8))}

\* the values of the evaluation: a pandas Series, any other Python value, a
\* function of SAFE_FUNCTIONS, or the exception that was raised
SeriesValue(cells) == [kind |-> "series", v |-> cells]
ScalarValue(x) == [kind |-> "scalar", v |-> x]
SafeFunction(name) == [kind |-> "function", v |-> name]
Raised(error) == [kind |-> "raise", v |-> error]

\* the value of a literal
ConstantValue(id) == IF id = "0" THEN 0 ELSE IF id = "1" THEN 1 ELSE id

\* the context of the vectorized pass, and that of evaluate for the row k
VectorContext(table) == [c \in DOMAIN table |-> SeriesValue(table[c])]
RowContext(table, k) == [c \in DOMAIN table |-> ScalarValue(table[c][k])]

\* the rows of a table
Rows(table) == DOMAIN table.a

\* operator.gt: on a Series it compares each cell
Greater(left, right) ==
    IF left.kind = "series"
    THEN SeriesValue([k \in DOMAIN left.v |-> left.v[k] > right.v])
    ELSE ScalarValue(left.v > right.v)

\* bool(value), which "if test", all() and any() take: the truth value of a
\* Series is ambiguous, and asking for it raises ValueError
Truth(value) ==
    IF value.kind = "series" THEN Raised("ValueError") ELSE value

\* _eval_node on the nodes IfExp, BoolOp, Compare, Call, Name and Constant;
\* values_of_BoolOp is all() / any() over the generator of the values from
\* the position j of the kids on: it stops at the first value that decides
RECURSIVE eval_value(_, _, _), values_of_BoolOp(_, _, _, _)
eval_value(nodes, i, ctx) ==
    LET node == nodes[i]
    IN IF node.kind = "Constant" THEN ScalarValue(ConstantValue(node.id))
       ELSE IF node.kind = "Name"
       THEN IF node.id \in DOMAIN ctx THEN ctx[node.id]
            ELSE IF node.id \in SafeFunctionNames THEN SafeFunction(node.id)
            ELSE Raised("NameError")
       ELSE IF node.kind = "Compare"
       THEN LET left == eval_value(nodes, node.kids[1], ctx)
                right == eval_value(nodes, node.kids[2], ctx)
            IN IF left.kind = "raise" THEN left
               ELSE IF right.kind = "raise" THEN right
               ELSE Greater(left, right)
       ELSE IF node.kind = "Call"
       THEN LET arg == eval_value(nodes, node.kids[2], ctx)
            IN IF arg.kind = "raise" THEN arg
               ELSE ScalarValue(Len(arg.v))     \* len(arg)
       ELSE IF node.kind = "IfExp"
       THEN LET test == Truth(eval_value(nodes, node.kids[1], ctx))
            IN IF test.kind = "raise" THEN test
               ELSE IF test.v THEN eval_value(nodes, node.kids[2], ctx)
               ELSE eval_value(nodes, node.kids[3], ctx)
       ELSE values_of_BoolOp(nodes, i, 1, ctx)
values_of_BoolOp(nodes, i, j, ctx) ==
    LET node == nodes[i]
        deciding == (node.id = "Or")
    IN IF j > Len(node.kids) THEN ScalarValue(~deciding)
       ELSE LET value == Truth(eval_value(nodes, node.kids[j], ctx))
            IN IF value.kind = "raise" THEN value
               ELSE IF value.v = deciding THEN ScalarValue(deciding)
               ELSE values_of_BoolOp(nodes, i, j + 1, ctx)

\* safe_parser.parse(expression, context): the value of the body
ParseValue(expr, ctx) == eval_value(expr.nodes, expr.nodes[1].kids[1], ctx)

\* df.apply(lambda row: self.evaluate(expression, row), axis=1)
RowByRow(expr, table) ==
    LET value(k) == ParseValue(expr, RowContext(table, k))
    IN IF \E k \in Rows(table) : value(k).kind = "raise"
       THEN Raised("ValueError")
       ELSE SeriesValue([k \in Rows(table) |-> value(k).v])

\* evaluate_vectorized up to the end of its try block: the expression is
\* parsed with every column bound to its Series; a Series is returned as it
\* is and any other value is repeated for every row; an exception that does
\* not say "not defined" leads to the row-by-row evaluation
VectorizedPass ==
    /\ vector_pc = "start"
    /\ LET parsed == ParseValue(expression, VectorContext(df))
       IN IF parsed.kind = "series"
          THEN vector_result' = parsed.v /\ vector_pc' = "returned"
          ELSE IF parsed.kind = "scalar"
          THEN /\ vector_result' = [k \in Rows(df) |-> parsed.v]
               /\ vector_pc' = "returned"
          ELSE IF parsed.v = "NameError"
          THEN vector_pc' = "raised" /\ UNCHANGED vector_result
          ELSE vector_pc' = "fallback" /\ UNCHANGED vector_result
    /\ UNCHANGED <<configVars, resolverVars, runVars, exprVars, chainVars,
                   threadVars, df>>

\* the handler of evaluate_vectorized: the expression is evaluated on each
\* row
RowFallback ==
    /\ vector_pc = "fallback"
    /\ LET parsed == RowByRow(expression, df)
       IN IF parsed.kind = "series"
          THEN vector_result' = parsed.v /\ vector_pc' = "returned"
          ELSE vector_pc' = "raised" /\ UNCHANGED vector_result
    /\ UNCHANGED <<configVars, resolverVars, runVars, exprVars, chainVars,
                   threadVars, df>>

VectorInit ==
    /\ expression \in VectorExpressions
    /\ \E n \in 0..MaxRows : df \in Tables(n)
    /\ vector_pc = "start"
    /\ vector_result = <<>>
    /\ context = <<>>
    /\ ExprIdle("none")
    /\ columns = <<>>
    /\ input_columns = {}
    /\ settings = DefaultSettings
    /\ ResolverIdle
    /\ RunIdle("none")
    /\ series = <<>>
    /\ operations = <<>>
    /\ ChainIdle("none")
    /\ threads = <<>>

VectorNext == VectorizedPass \/ RowFallback

SpecVector == VectorInit /\ [][VectorNext]_vars

----------------------------------------------------------------------------
(* Column operations *)

\* largest length of a series given to apply_operations
MaxLen == 3
\* largest number of operations of a chain
MaxOps == 2

\* an element of a series: a number or NaN
Null == [null |-> TRUE, v |-> 0]
Num(n) == [null |-> FALSE, v |-> n]
Elements == {Null, Num(0), Num(1)}

\* the series of at most n elements
SeriesUpTo(n) == UNION {[1..k -> Elements] : k \in 0..n}

\* the function strings of the Map operations: [raises, value] for the
\* element x
MapFunctions == {"x + 1", "x * 0", "int(x)"}
CallMapFunction(f, x) ==
    IF f = "x + 1"
    THEN [raises |-> FALSE, value |-> IF x.null THEN Null ELSE Num(x.v + 1)]
    ELSE IF f = "x * 0"
    THEN [raises |-> FALSE, value |-> IF x.null THEN Null ELSE Num(0)]
    ELSE \* int(x) raises for NaN
         [raises |-> x.null, value |-> x]

\* the condition strings of the Filter operations: [raises, value]
CallCondition(c, x) ==
    IF c = "x > 0" THEN [raises |-> FALSE, value |-> ~x.null /\ x.v > 0]
    ELSE IF c = "False" THEN [raises |-> FALSE, value |-> FALSE]
    ELSE \* int(x) > 0
         [raises |-> x.null, value |-> ~x.null /\ x.v > 0]

\* the function strings of the Reduce operations
CallReduceFunction(f, acc, x) ==
    IF f = "acc + x" THEN Num(acc.v + x.v)
    ELSE \* max(acc, x)
         IF x.v > acc.v THEN x ELSE acc

\* an operation configuration
OperationConfig(type, function, condition, fill_value, has_initial, initial) ==
    [type |-> type, function |-> function, condition |-> condition,
     fill_value |-> fill_value, has_initial_value |-> has_initial,
     initial_value |-> initial]

\* the operation configurations of the chains
OperationConfigs ==
    {OperationConfig("map", f, "", Null, FALSE, Null) : f \in MapFunctions}
    \cup {OperationConfig("filter", "", c, fill, FALSE, Null) :
             c \in {"x > 0", "False"}, fill \in {Null, Num(0)}}
    \cup {OperationConfig("filter", "", "int(x) > 0", Null, FALSE, Null)}
    \cup {OperationConfig("reduce", "acc + x", "", Null, h, Num(0)) :
             h \in BOOLEAN}
    \cup {OperationConfig("reduce", "max(acc, x)", "", Null, FALSE, Null)}
    \cup {OperationConfig("rank", "", "", Null, FALSE, Null)}

\* parse_operation: whether it raises for the configuration
parse_operation_raises(operation_config) ==
    operation_config.type \notin {"map", "filter", "reduce", "group", "window"}

\* MapOperation.apply: [raises, series]
MapOperation_apply(op, s) ==
    IF \E i \in DOMAIN s : CallMapFunction(op.function, s[i]).raises
    THEN [raises |-> TRUE, series |-> <<>>]
    ELSE [raises |-> FALSE,
          series |-> [i \in DOMAIN s |-> CallMapFunction(op.function, s[i]).value]]

FilterOperation_apply_dropping(op, s) ==
    [raises |-> FALSE,
     series |-> SelectSeq(s, LAMBDA x : CallCondition(op.condition, x).value)]

\* FilterOperation.apply: series.where(mask, fill_value)
FilterOperation_apply(op, s) ==
    IF \E i \in DOMAIN s : CallCondition(op.condition, s[i]).raises
    THEN [raises |-> TRUE, series |-> <<>>]
    ELSE [raises |-> FALSE,
          series |-> [i \in DOMAIN s |->
                        IF CallCondition(op.condition, s[i]).value
                        THEN s[i] ELSE op.fill_value]]

\* series.dropna()
DropNa(s) == SelectSeq(s, LAMBDA x : ~x.null)

\* functools.reduce(function, sequence, initial)
RECURSIVE Fold(_, _, _)
Fold(f, acc, s) ==
    IF s = <<>> THEN acc ELSE Fold(f, CallReduceFunction(f, acc, Head(s)), Tail(s))

\* ReduceOperation.apply: the folded value, broadcast to all rows
ReduceOperation_apply(op, s) ==
    LET values == DropNa(s)
    IN IF ~op.has_initial_value /\ values = <<>>
       THEN [raises |-> TRUE, series |-> <<>>]
       ELSE LET folded == IF op.has_initial_value
                          THEN Fold(op.function, op.initial_value, values)
                          ELSE Fold(op.function, Head(values), Tail(values))
            IN [raises |-> FALSE, series |-> [i \in DOMAIN s |-> folded]]

\* operation.apply(result) for a parsed operation
OperationApply(op, s) ==
    IF op.type = "map" THEN MapOperation_apply(op, s)
    ELSE IF op.type = "filter" THEN FilterOperation_apply(op, s)
    ELSE ReduceOperation_apply(op, s)

\* apply_operations up to the loop: result = series.copy()
ApplyBegin ==
    /\ cpc = "start"
    /\ result_series' = series
    /\ stage' = 1
    /\ cpc' = "stages"
    /\ UNCHANGED <<series, operations, stage_outputs, configVars, threadVars, vectorVars,
                   resolverVars, runVars, exprVars>>

\* one iteration of the loop of apply_operations
ApplyStage ==
    /\ cpc = "stages"
    /\ stage <= Len(operations)
    /\ IF parse_operation_raises(operations[stage])
       THEN /\ cpc' = "raised"
            /\ UNCHANGED <<stage, result_series, stage_outputs>>
       ELSE LET applied == OperationApply(operations[stage], result_series)
            IN IF applied.raises
               THEN /\ cpc' = "raised"
                    /\ UNCHANGED <<stage, result_series, stage_outputs>>
               ELSE /\ result_series' = applied.series
                    /\ stage_outputs' = Append(stage_outputs, applied.series)
                    /\ stage' = stage + 1
                    /\ UNCHANGED cpc
    /\ UNCHANGED <<series, operations, configVars, threadVars, vectorVars, resolverVars, runVars,
                   exprVars>>

\* return result
ApplyReturn ==
    /\ cpc = "stages"
    /\ stage > Len(operations)
    /\ cpc' = "returned"
    /\ UNCHANGED <<series, operations, stage, result_series, stage_outputs,
                   configVars, threadVars, vectorVars, resolverVars, runVars, exprVars>>

ChainInit ==
    /\ series \in SeriesUpTo(MaxLen)
    /\ \E n \in 1..MaxOps : operations \in [1..n -> OperationConfigs]
    /\ ChainIdle("start")
    /\ columns = <<>>
    /\ input_columns = {}
    /\ settings = DefaultSettings
    /\ ResolverIdle
    /\ RunIdle("none")
    /\ expression = NoExpression
    /\ context = <<>>
    /\ ExprIdle("none")
    /\ threads = <<>>
    /\ VectorIdle

ChainNext == ApplyBegin \/ ApplyStage \/ ApplyReturn

SpecChain == ChainInit /\ [][ChainNext]_vars

----------------------------------------------------------------------------
(* Claims about the resolver *)

\* C1 (topological validity): whenever resolve_execution_order returns an
\* order, every dependency edge between two output columns has the column
\* that is read at a strictly smaller position than the column that reads it.
C1_TopologicalValidity ==
    rpc = "resolved" =>
        \A A \in Keys(columns) : \A B \in dependency_graph[A] :
            B \in Keys(columns) =>
                /\ Pos(execution_order, B) > 0
                /\ Pos(execution_order, A) > 0
                /\ Pos(execution_order, B) < Pos(execution_order, A)

\* an order was returned for three columns of which the last-declared one is
\* read by an earlier-declared one
C1_Witness ==
    /\ rpc = "resolved"
    /\ Len(columns) = 3
    /\ "C" \in dependency_graph["A"]
    /\ "A" \in dependency_graph["B"]
    /\ execution_order = <<"C", "A", "B">>

\* the specification "A: B + 1, B: A + 1" with no other columns
ABCycle == <<ExprColumn("A", {"B"}), ExprColumn("B", {"A"})>>

\* C2 (cycle precision): the resolver fails with the cycle error exactly when
\* fewer columns were placed than there are output columns, the error names
\* exactly the output columns that were not placed, and for A: "B + 1",
\* B: "A + 1" it names {A, B}.
C2_CyclePrecision ==
    /\ rpc = "cycle_error" =>
          /\ Cardinality(Range(execution_order)) < Len(columns)
          /\ remaining = Keys(columns) \ Range(execution_order)
          /\ remaining # {}
    /\ rpc = "resolved" => Range(execution_order) = Keys(columns)
    /\ (rpc \in {"resolved", "cycle_error"} /\ columns = ABCycle) =>
          (rpc = "cycle_error" /\ remaining = {"A", "B"})

\* a cycle behind a column that was placed: the error names the two columns
\* of the cycle and not the placed one
C2_Witness ==
    /\ rpc = "cycle_error"
    /\ Len(columns) = 3
    /\ execution_order = <<"C">>
    /\ remaining = {"A", "B"}

C2_WitnessAB ==
    /\ rpc = "cycle_error"
    /\ columns = ABCycle
    /\ remaining = {"A", "B"}

\* the sequence s lists its elements in declaration order
InDeclarationOrder(s) ==
    \A i, j \in DOMAIN s : i < j => Pos(OutputNames, s[i]) < Pos(OutputNames, s[j])

\* C3 (deterministic ordering): every tie among columns that become ready at
\* the same time - the initially ready columns and the dependents released by
\* the same placed column - is broken by declaration order.
C3_TiesByDeclarationOrder ==
    [][(rpc = "idle" \/ (rpc = "kahn" /\ queue # <<>>)) =>
          LET old == IF rpc = "idle" THEN <<>> ELSE Tail(queue)
          IN InDeclarationOrder(SubSeq(queue', Len(old) + 1, Len(queue')))]_vars

----------------------------------------------------------------------------
(* Claims about the runs of process_with_fallback *)

Partial == settings.processing_mode = "partial"
Strict == settings.processing_mode = "strict"

\* s and t have no element in common
Disjoint(s, t) == Range(s) \cap Range(t) = {}

\* C4 (Partial-mode independence): in Partial mode the columns of the
\* execution order are attempted one after the other, each exactly once,
\* whatever the earlier columns did; an attempted column is in exactly one of
\* successful_columns and failed_columns, in the order of the attempts; a
\* successful column is in the table with its computed content and keeps it
\* whatever fails later; and the run returns only when every column of the
\* configuration has been attempted.
C4_PartialIndependence ==
    (Partial /\ pc \in {"columns", "done"}) =>
        /\ attempts = SubSeq(run_order, 1, idx - 1)
        /\ \A i, j \in DOMAIN attempts : i # j => attempts[i] # attempts[j]
        /\ Range(successful_columns) \cup Range(failed_columns) = Range(attempts)
        /\ Disjoint(successful_columns, failed_columns)
        /\ Len(successful_columns) + Len(failed_columns) = Len(attempts)
        /\ failed_columns = raised
        /\ \A c \in Range(successful_columns) :
              c \in DOMAIN result_df /\ result_df[c] = Computed(c)
        /\ pc = "done" =>
              /\ attempts = run_order
              /\ Range(attempts) = Keys(columns)
              /\ result.successful_columns = successful_columns
              /\ result.failed_columns = failed_columns
              /\ \A c \in Range(successful_columns) :
                    c \in DOMAIN result.data /\ result.data[c] = Computed(c)

\* a run of three columns in which the first and the last column failed and
\* the column between them succeeded and is in the returned table
C4_Witness ==
    /\ Partial /\ pc = "done"
    /\ attempts = <<"A", "B", "C">>
    /\ result.failed_columns = <<"A", "C">>
    /\ result.successful_columns = <<"B">>
    /\ result.data["B"] = Computed("B")

\* C5 (threshold escalation): in a Partial run with whole-run fallback
\* enabled, fallback_used is true if and only if failed columns / output
\* columns is strictly greater than failure_threshold, and an escalated run
\* has success false; 2 of 4 failing at threshold 0.5 does not escalate, 3 of
\* 4 failing does.
C5_ThresholdEscalation ==
    (Partial /\ pc = "done" /\ settings.enable_fallback) =>
        /\ result.fallback_used <=>
              Len(result.failed_columns) * 100
                 > settings.failure_threshold * Len(columns)
        /\ result.fallback_used => ~result.success
        /\ (Len(columns) = 4 /\ settings.failure_threshold = 50) =>
              /\ Len(result.failed_columns) = 2 => ~result.fallback_used
              /\ Len(result.failed_columns) = 3 =>
                    (result.fallback_used /\ ~result.success)

\* exactly 2 of 4 columns failed at threshold 0.5: the run did not escalate
C5_Witness ==
    /\ Partial /\ pc = "done" /\ settings.enable_fallback
    /\ Len(columns) = 4 /\ settings.failure_threshold = 50
    /\ Len(result.failed_columns) = 2
    /\ ~result.fallback_used

\* 3 of 4 columns failed at threshold 0.5: the run escalated
C5_WitnessEscalated ==
    /\ Partial /\ pc = "done" /\ settings.enable_fallback
    /\ Len(columns) = 4 /\ settings.failure_threshold = 50
    /\ Len(result.failed_columns) = 3
    /\ result.fallback_used /\ ~result.success

\* C6 (substitute transformation): in Partial mode a column whose computation
\* failed and that has a default_value substitute is in the returned table,
\* filled with the configured value, is in failed_columns and is not in
\* successful_columns.
C6_SubstituteTransformation ==
    (Partial /\ pc = "done") =>
        \A c \in Range(raised) :
            FallbackConfig(c).type = "default_value" =>
                /\ c \in DOMAIN result.data
                /\ result.data[c] = [origin |-> "default_value",
                                     of |-> FallbackConfig(c).value]
                /\ c \in Range(result.failed_columns)
                /\ c \notin Range(result.successful_columns)

\* B failed, had the default_value substitute "X" and is in the returned
\* table with it, next to a column that succeeded
C6_Witness ==
    /\ Partial /\ pc = "done"
    /\ "B" \in Range(raised)
    /\ FallbackConfig("B").type = "default_value"
    /\ result.data["B"] = [origin |-> "default_value", of |-> "X"]
    /\ result.failed_columns = <<"B">>
    /\ result.successful_columns = <<"A">>

\* C7 (Strict-mode atomicity): in Strict mode the first failure of the
\* computation of a column ends the run, with success false and the
\* unmodified input as the returned table.
C7_StrictAtomicity ==
    (Strict /\ raised # <<>>) =>
        /\ pc = "done"
        /\ Len(raised) = 1
        /\ attempts[Len(attempts)] = raised[1]
        /\ ~result.success
        /\ result.data = InputTable(input_columns)

\* C10: in Partial mode a column whose computation failed and for which no
\* substitute was applied is not a column of the returned table.
C10_FailedColumnOmitted ==
    (Partial /\ pc = "done") =>
        \A c \in Range(result.failed_columns) :
            c \notin fallback_applied => c \notin DOMAIN result.data

----------------------------------------------------------------------------
(* Claims about SafeExpressionParser.parse *)

ParseSettled == epc \in {"returned", "raised"}
Unsafe == {ImportOs, ExecX}

C8_WitnessAPlusB ==
    /\ expression = APlusB
    /\ {"a", "b"} \subseteq DOMAIN context
    /\ epc = "returned"
    /\ evaluated = <<2, 3, 5>>

----------------------------------------------------------------------------
(* Claims about apply_operations *)

\* every operation of the chain is a Map, a Filter or a Reduce
MapFilterReduce ==
    \A i \in DOMAIN operations : operations[i].type \in {"map", "filter", "reduce"}

\* the series the i-th stage was applied to
StageInput(i) == IF i = 1 THEN series ELSE stage_outputs[i - 1]

\* C9 (chain length invariant): in a chain of Map, Filter and Reduce stages
\* the series produced by each stage, and the series the chain returns, has
\* the length of the input series; a Filter whose condition fails for every
\* element produces the fill value at every row of the input, and a Reduce
\* produces one and the same value, the fold of the non-null elements, at
\* every row of the input.
C9_ChainLength ==
    MapFilterReduce =>
        /\ \A i \in DOMAIN stage_outputs :
              /\ Len(stage_outputs[i]) = Len(series)
              /\ (operations[i].type = "filter"
                  /\ \A j \in 1..Len(series) :
                        ~CallCondition(operations[i].condition,
                                       StageInput(i)[j]).value)
                 => stage_outputs[i] =
                       [j \in 1..Len(series) |-> operations[i].fill_value]
              /\ operations[i].type = "reduce" =>
                    \A j, k \in 1..Len(series) :
                        stage_outputs[i][j] = stage_outputs[i][k]
        /\ cpc \in {"stages", "returned"} => Len(result_series) = Len(series)
        /\ cpc = "returned" => Len(stage_outputs) = Len(operations)

\* a Reduce of three rows, one of them null, followed by a Filter that masks
\* every row
C9_Witness ==
    /\ cpc = "returned"
    /\ series = <<Num(1), Null, Num(1)>>
    /\ Len(operations) = 2
    /\ operations[1].type = "reduce"
    /\ operations[2].type = "filter"
    /\ stage_outputs = <<<<Num(2), Num(2), Num(2)>>, <<Null, Null, Null>>>>

----------------------------------------------------------------------------
(* Claims about the outcome of a call of process_with_fallback *)

\* C11 (single escalation check): in a Partial run the escalation condition
\* is evaluated exactly once, when the run returns, and by then every column
\* of the execution order has been attempted; while the column pass is under
\* way nothing has been evaluated or returned, however many columns failed.
C11_EscalationOnceAfterColumnPass ==
    Partial =>
        /\ escalation_checks = (IF pc = "done" THEN 1 ELSE 0)
        /\ pc = "columns" => result = NoResult
        /\ pc = "done" => /\ attempts = run_order
                          /\ Range(attempts) = Keys(columns)
                          /\ Len(attempts) = Len(columns)

\* the first three of four columns failed, which is past every threshold, and
\* the fourth column was still attempted before the one evaluation
C11_Witness ==
    /\ Partial /\ pc = "done" /\ settings.enable_fallback
    /\ Len(columns) = 4
    /\ result.failed_columns = <<"A", "B", "C">>
    /\ attempts = <<"A", "B", "C", "D">>
    /\ result.successful_columns = <<"D">>
    /\ escalation_checks = 1
    /\ result.fallback_used

\* C12 (escalation outcome): a Partial run whose failed columns / output
\* columns is greater than failure_threshold, with whole-run fallback
\* enabled, returns success false and fallback_used true, has invoked neither
\* the filters nor the sorting, has logged nothing after the column pass, and
\* returns the table exactly as the column pass left it.
C12_EscalationOutcome ==
    (/\ Partial /\ pc = "done"
     /\ settings.enable_fallback
     /\ Len(failed_columns) * 100 > settings.failure_threshold * Len(columns))
    => /\ ~result.success
       /\ result.fallback_used
       /\ post_calls = <<>>
       /\ result.data = result_df
       /\ Len(result.error_log) = Len(failed_columns)

\* an escalated run of a configuration with filters and sorting: two of three
\* columns failed, the table holds the computed third column, and no
\* collaborator was invoked
C12_Witness ==
    /\ Partial /\ pc = "done"
    /\ settings.enable_fallback /\ settings.failure_threshold = 50
    /\ settings.has_filters /\ settings.has_sort
    /\ Len(columns) = 3
    /\ result.failed_columns = <<"A", "B">>
    /\ result.fallback_used /\ ~result.success
    /\ post_calls = <<>>
    /\ DOMAIN result.data = input_columns \cup {"C"}
    /\ result.data["C"] = Computed("C")

Fallback == settings.processing_mode = "fallback"

\* C13 (supplier output verbatim): a Fallback-mode run whose supplier returns
\* a table returns that table as it is, with success and fallback_used true;
\* no plan was made, no column was handed to the engine, and no column of
\* the output was produced by the processor.
C13_SupplierVerbatim ==
    (Fallback /\ pc = "done" /\ fallback_query_func = "returns")
    => /\ result.data = SupplierTable
       /\ result.success /\ result.fallback_used
       /\ attempts = <<>> /\ rpc = "idle"
       /\ \A c \in DOMAIN result.data : result.data[c].origin = "supplier"

\* two output columns that the basic transformations would copy are
\* configured, the supplier returned, and the result is the supplier's table
C13_Witness ==
    /\ Fallback /\ pc = "done" /\ fallback_query_func = "returns"
    /\ BasicCopied(columns, input_columns) = {"A", "B"}
    /\ result.data = SupplierTable
    /\ result.fallback_used

\* C14 (Fallback mode never fails): a Fallback-mode run returns success true
\* and fallback_used true whether the supplier is absent, returns or raises;
\* when it raises, the failure is logged and the table is the one of the
\* basic transformations; a column whose type conversion raised keeps its
\* copy and the columns after it are still copied.
C14_FallbackNeverFails ==
    (Fallback /\ pc = "done")
    => /\ result.success /\ result.fallback_used
       /\ fallback_query_func \in {"absent", "returns", "raises"}
       /\ fallback_query_func # "returns" =>
             /\ DOMAIN result.data =
                   input_columns \cup BasicCopied(columns, input_columns)
             /\ \A c \in BasicCopied(columns, input_columns) :
                   /\ result.data[c].origin \in {"basic", "unconverted"}
                   /\ result.data[c].of = ConfigOf(columns, c).source
       /\ result.error_log = (IF fallback_query_func = "raises"
                              THEN <<ErrorEntry("FALLBACK_QUERY", FALSE)>>
                              ELSE <<>>)

\* the supplier raised, the conversion of the first column raised, and the
\* second column was copied and converted all the same
C14_Witness ==
    /\ Fallback /\ pc = "done" /\ fallback_query_func = "raises"
    /\ BasicCopied(columns, input_columns) = {"A", "B"}
    /\ result.success /\ result.fallback_used
    /\ result.data["A"] = [origin |-> "unconverted", of |-> "a"]
    /\ result.data["B"] = [origin |-> "basic", of |-> "B"]
    /\ result.error_log = <<ErrorEntry("FALLBACK_QUERY", FALSE)>>

\* no supplier was given and the run succeeded with the basic transformations
C14_WitnessAbsent ==
    /\ Fallback /\ pc = "done" /\ fallback_query_func = "absent"
    /\ result.success /\ result.fallback_used
    /\ "A" \in BasicCopied(columns, input_columns)
    /\ result.data["A"] = [origin |-> "basic", of |-> "a"]

\* plan_execution raised: a cycle or an unresolved reference
PlanFailed == rpc \in {"cycle_error", "reference_error"}

\* C15 (dependency errors are fatal): in Strict and in Partial mode, once
\* planning has failed with a dependency error no column is handed to
\* _process_column, and the run does not return success.
C15_DependencyErrorFatal ==
    ((Partial \/ Strict) /\ PlanFailed)
    => /\ attempts = <<>>
       /\ pc = "done" => ~result.success

\* the output columns whose source, or whose transformation, names something
\* that is neither an input column, an output column nor a name of the
\* expression language
DanglingReferences(cols, inputs) ==
    {cols[i].name : i \in {j \in DOMAIN cols :
        ReadsOf(cols[j]) \ (inputs \cup Keys(cols) \cup BuiltinNames
                            \cup SafeFunctionNames \cup ContextExtras) # {}}}

\* C16 (dangling references are errors): when an output column names a
\* column that is neither an input nor an output column, plan_execution
\* fails with a reference error; it never returns a plan.
C16_DanglingReferenceFails ==
    (PlanReturned /\ DanglingReferences(columns, input_columns) # {})
    => rpc = "reference_error"

\* C17 (interim columns are not returned): in a Strict and in a Partial run,
\* no output column marked interim (and not named like an input column) is
\* a column of the returned table.
C17_InterimNotReturned ==
    ((Partial \/ Strict) /\ pc = "done")
    => \A c \in InterimColumns(columns) \ input_columns :
          c \notin DOMAIN result.data

\* the number of the three column lists of r that hold the column c
Classifications(r, c) ==
    Cardinality({k \in {"successful", "failed", "skipped"} :
        c \in Range(IF k = "successful" THEN r.successful_columns
                    ELSE IF k = "failed" THEN r.failed_columns
                    ELSE r.skipped_columns)})

\* C18 (column classification): the ProcessingResult of every run, in any
\* mode and with any outcome, holds every output column in exactly one of
\* successful_columns, failed_columns and skipped_columns.
C18_ColumnsClassifiedOnce ==
    pc = "done" => \A c \in Keys(columns) : Classifications(result, c) = 1

\* the records the logger appended since the current call began
LoggedInCall == SubSeq(error_log, log_mark + 1, Len(error_log))

\* C19 (error log of the run): the error_log of the result of a run holds
\* the records logged during that run and no others.
C19_ErrorLogOfThisRun ==
    pc = "done" => result.error_log = LoggedInCall

\* error_log of a held result as the caller reads it now: the field is bound
\* to the list of the logger, which the logger keeps appending to
CurrentErrorLog(h) == error_log

\* the three column lists of a held result as the caller reads them now: the
\* fields are bound to the lists the processor had when it returned, which
\* the processor appends to until reset_stats binds it to new ones
CurrentColumnLists(h) ==
    IF h.stats_id = stats_id
    THEN <<successful_columns, failed_columns, skipped_columns>>
    ELSE <<h.result.successful_columns, h.result.failed_columns,
           h.result.skipped_columns>>

\* C20 (returned results are immutable): whatever is done with the processor
\* after a ProcessingResult was returned, the result's column lists and its
\* error_log read as they did when it was returned.
C20_ReturnedResultUnchanged ==
    \A i \in DOMAIN returned :
        /\ CurrentColumnLists(returned[i]) =
              <<returned[i].result.successful_columns,
                returned[i].result.failed_columns,
                returned[i].result.skipped_columns>>
        /\ CurrentErrorLog(returned[i]) = returned[i].result.error_log

----------------------------------------------------------------------------
(* Claims about collaborators, stages and the error list *)

\* C25 (collaborators only after viable processing): a Partial run that ends
\* with success false, none of its columns having succeeded, has invoked
\* neither the filters nor the sorting.
C25_NoPostProcessingOnFailure ==
    (Partial /\ pc = "done" /\ ~result.success) => post_calls = <<>>

\* C27 (malformed stage fails first): when apply_operations fails on a stage
\* whose configuration parse_operation rejects, no stage of the chain has
\* been applied to the series.
C27_MalformedStageFailsFirst ==
    (/\ cpc = "raised"
     /\ stage \in DOMAIN operations
     /\ parse_operation_raises(operations[stage]))
    => stage_outputs = <<>>

\* the records of the error list that name the column c
RecordsNaming(log, c) == {i \in DOMAIN log : log[i].column = c}

\* C28 (one record per column failure): in every mode, for every column
\* whose computation failed the error list holds exactly one record that
\* names the column.
C28_OneRecordPerColumnFailure ==
    \A c \in Range(raised) : Cardinality(RecordsNaming(error_log, c)) = 1

----------------------------------------------------------------------------
(* Claims about transform, the analysis of dependencies and the two paths *)

\* C23 (when transform raises): the call of transform has raised exactly
\* when it recorded an error while ignore_errors is false or while the number
\* of recorded errors had reached max_errors; otherwise transform attempted
\* every column of its order, returned its table, and the engine's errors
\* hold one entry for each error that occurred.
C23_TransformRaises ==
    (Strict /\ pc = "done")
    => /\ ~result.success
          <=> (errors > 0 /\ (~settings.ignore_errors
                              \/ errors >= settings.max_errors))
       /\ result.success
          => /\ attempts = run_order
             /\ errors = Len(occurred)
             /\ result.data = Restrict(result_df, DOMAIN result.data)
             /\ input_columns \subseteq DOMAIN result.data

C23_Witness ==
    /\ Strict /\ pc = "done"
    /\ settings.ignore_errors /\ settings.max_errors = DefaultMaxErrors
    /\ result.success
    /\ Len(columns) = 3
    /\ outcomes = <<"invalid", "raise", "ok">>
    /\ errors = 2

C23_WitnessRaised ==
    /\ Strict /\ pc = "done"
    /\ settings.ignore_errors /\ settings.max_errors = 2
    /\ ~result.success
    /\ outcomes = <<"invalid", "invalid">>
    /\ attempts = <<"A", "B">>


\* the call of transform that was made before the Partial call
AfterTransform ==
    /\ Partial /\ pc = "done"
    /\ returned # <<>> /\ returned[1].processing_mode = "strict"

\* C29 (same sequence on both paths): the sequence of columns transform
\* computed equals the sequence of columns the Partial processor
\* attempts for the same output columns and input.
C29_SameSequence ==
    AfterTransform => returned[1].attempts = attempts


\* the output columns whose value the computation of the column config reads
\* when they are in the table: a name of the expression is looked up in the
\* columns of the table before the safe functions
OutputColumnsRead(config, cols) ==
    (ReadsOf(config) \cap Keys(cols)) \ {config.name}

\* C26 (no missed dependency): when the order is resolved, every output
\* column B that the computation of an output column A reads is in the
\* dependency set of A and is placed before A, also when B is named like a
\* builtin function.
C26_NoMissedDependency ==
    rpc = "resolved"
    => \A i \in DOMAIN columns :
          \A B \in OutputColumnsRead(columns[i], columns) :
             /\ B \in dependency_graph[columns[i].name]
             /\ Pos(execution_order, B) < Pos(execution_order, columns[i].name)


----------------------------------------------------------------------------
(* Claims about calls that run at once and about vectorized evaluation *)

\* C21 (calls at once are independent): the result a call of
\* process_with_fallback returns reports the columns that succeeded and that
\* failed in that call, and the errors logged by that call, whatever other
\* call runs at the same time on the same processor, logger and engine.
C21_OwnOutcomesReported ==
    \A t \in DOMAIN threads :
       threads[t].pc = "done"
       => /\ threads[t].result.successful_columns = threads[t].succeeded
          /\ threads[t].result.failed_columns = threads[t].failed
          /\ threads[t].result.error_log = threads[t].logged


\* C24 (vectorized evaluation is elementwise): the series evaluate_vectorized
\* returns for a conditional or boolean expression over the columns has, at
\* each row, the value of the expression evaluated on that row.
C24_ElementwiseBroadcast ==
    vector_pc = "returned"
    => \A k \in Rows(df) :
          ScalarValue(vector_result[k]) = ParseValue(expression, RowContext(df, k))

====
